---- MODULE Spec2Model ----
(***************************************************************************)
(* A model of the resume API of app.py: the in-memory store `data`, the    *)
(* URL map of the Flask application and one handler per view function.     *)
(* A request is handled in one step: the URL map picks the view function,  *)
(* the view function computes the new store and the response.              *)
(*                                                                         *)
(* Spec is the resume API driven by requests, one at a time. SpecCustom is *)
(* the custom sections, a list of their own that no resume handler reads   *)
(* or writes, driven by requests in the same way. SpecHelpers is the       *)
(* helpers of helpers.py called directly, as the unit tests call them.     *)
(* SpecThreaded is two requests handled by two threads of a threaded host, *)
(* one statement of a view function at a time.                             *)
(*                                                                         *)
(* JSON values are records [type, val]; a JSON object (or a form) is a     *)
(* function from its keys to values; a dataclass instance is the function  *)
(* of its __dict__.                                                        *)
(***************************************************************************)
EXTENDS Integers, Sequences, FiniteSets, TLC

VARIABLES data, custom_sections, pre, pre_sections, request, response,
          created, call, threads

vars == <<data, custom_sections, pre, pre_sections, request, response,
          created, call, threads>>

\* Bound: the total number of records stored in the three collections.
MaxRecords == 3

\* Bound: how many required fields a generated payload leaves out or mistypes.
MaxBad == 2

\* Bound: the number of custom sections stored.
MaxSections == 3

\* Bound: the number of experience and education records stored when two
\* threads handle requests.
MaxThreadedRecords == 4

-----------------------------------------------------------------------------
(* Values *)

Str(s) == [type |-> "str", val |-> s]

\* A JSON number.
IntVal(n) == [type |-> "int", val |-> ToString(n)]

Num == IntVal(7)

None == [type |-> "NoneType", val |-> "None"]

\* isinstance(value, str)
IsStr(value) == value.type = "str"

\* The string a client submits for field f; it differs from every initial
\* value and from the string submitted for any other field.
NewVal(f) == Str(f \o "#new")

Range(seq) == {seq[i] : i \in 1..Len(seq)}

EmptyBody == [k \in {} |-> None]

DEFAULT_LOGO == Str("default.jpg")

ALLOWED_EXTENSIONS == {"png", "jpg", "jpeg", "gif"}

-----------------------------------------------------------------------------
(* models.py *)

Experience(title, company, start_date, end_date, description, logo) ==
    [title |-> title, company |-> company, start_date |-> start_date,
     end_date |-> end_date, description |-> description, logo |-> logo,
     id |-> None]

Education(course, school, start_date, end_date, grade, logo) ==
    [course |-> course, school |-> school, start_date |-> start_date,
     end_date |-> end_date, grade |-> grade, logo |-> logo, id |-> None]

Skill(name, proficiency, logo) ==
    [name |-> name, proficiency |-> proficiency, logo |-> logo]

UserInformation(name, email_address, phone_number) ==
    [name |-> name, email_address |-> email_address,
     phone_number |-> phone_number]

\* reset_data(): the store after the module is imported.
reset_data ==
    [experience |->
        <<Experience(Str("Software Developer"), Str("A Cool Company"),
                     Str("October 2022"), Str("Present"),
                     Str("Writing Python Code"), Str("example-logo.png"))>>,
     education |->
        <<Education(Str("Computer Science"), Str("University of Tech"),
                    Str("September 2019"), Str("July 2022"), Str("80%"),
                    Str("example-logo.png"))>>,
     skill |->
        <<Skill(Str("Python"), Str("1-2 Years"), Str("example-logo.png"))>>,
     user_information |->
        [kind |-> "list",
         items |-> <<UserInformation(Str("Joe Smith"), Str("example@gmail.com"),
                                     Str("+11234567890"))>>]]

ExperienceFields == <<"title", "company", "start_date", "end_date", "description">>

EducationFields == <<"course", "school", "start_date", "end_date", "grade">>

SkillFields == <<"name", "proficiency">>

UserInformationFields == <<"name", "email_address", "phone_number">>

-----------------------------------------------------------------------------
(* Requests and responses *)

JSON == "application/json"

\* The Content-Type of a multipart request as a client sends it, and the
\* bare media type the handlers compare request.content_type with.
MULTIPART_WITH_BOUNDARY == "multipart/form-data; boundary=X"

MULTIPART == "multipart/form-data"

NoFile == [present |-> FALSE, stem |-> "", dot |-> FALSE, ext |-> ""]

File(stem, ext) == [present |-> TRUE, stem |-> stem, dot |-> TRUE, ext |-> ext]

NoArg == [kind |-> "absent", n |-> 0]

DigitsArg(n) == [kind |-> "digits", n |-> n]

WordArg == [kind |-> "word", n |-> 0]

NoIndex == 0 - 1

Request(method, path, index, content_type, json, form, logo, id) ==
    [method |-> method, path |-> path, index |-> index,
     content_type |-> content_type, json |-> json, form |-> form,
     logo |-> logo, id |-> id]

NoRequest == Request("", "", NoIndex, "", EmptyBody, EmptyBody, NoFile, NoArg)

\* A response: the status and the members of its JSON body that are present.
\* shape is "list" for a JSON array, "object" for a record, "" otherwise.
Response(status, message, error, id, shape, items, missing_fields, invalid_fields) ==
    [status |-> status, message |-> message, error |-> error, id |-> id,
     shape |-> shape, items |-> items, missing_fields |-> missing_fields,
     invalid_fields |-> invalid_fields]

NoResponse == Response(0, "", "", NoIndex, "", <<>>, <<>>, <<>>)

Message(status, message) ==
    Response(status, message, "", NoIndex, "", <<>>, <<>>, <<>>)

Created_OffByOne(message, id) ==
    Response(201, message, "", id + 1, "", <<>>, <<>>, <<>>)

Created(message, id) ==
    Response(201, message, "", id, "", <<>>, <<>>, <<>>)

Updated(message, id) ==
    Response(200, message, "", id, "", <<>>, <<>>, <<>>)

Error(status, error) ==
    Response(status, "", error, NoIndex, "", <<>>, <<>>, <<>>)

ValidationFailed(missing_fields, invalid_fields) ==
    Response(400, "", "Validation failed", NoIndex, "", <<>>,
             missing_fields, invalid_fields)

JsonList(items) == Response(200, "", "", NoIndex, "list", items, <<>>, <<>>)

JsonObject(status, item) ==
    Response(status, "", "", NoIndex, "object", <<item>>, <<>>, <<>>)

\* An exception no handler catches: Flask answers 500 Internal Server Error.
Unhandled(exception) == Error(500, exception)

\* The outcome of a view function: the globals it leaves and its response.
Result(d, resp) == [data |-> d, response |-> resp]

\* The module's globals as the view functions see them: the four keys of
\* `data` and the list custom_sections.
Globals(d, sections) ==
    [experience |-> d.experience, education |-> d.education,
     skill |-> d.skill, user_information |-> d.user_information,
     custom_sections |-> sections]

\* The dictionary `data` among the globals.
DataOf(g) ==
    [experience |-> g.experience, education |-> g.education,
     skill |-> g.skill, user_information |-> g.user_information]

-----------------------------------------------------------------------------
(* What the framework hands to a view function *)

\* request.get_json() and request.json parse the body only of a request
\* whose Content-Type is JSON; for any other they raise UnsupportedMediaType.
is_json(req) == req.content_type = JSON

\* request.form: the fields of a multipart body, which the framework can
\* only split when the Content-Type names the boundary.
request_form(req) ==
    IF req.content_type = MULTIPART_WITH_BOUNDARY THEN req.form ELSE EmptyBody

\* request.files.get("logo")
request_files_logo(req) ==
    IF req.content_type = MULTIPART_WITH_BOUNDARY THEN req.logo ELSE NoFile

\* request_body = request.form if request.content_type == "multipart/form-data"
\*                else request.get_json()
\* (the else branch raises when the request is not JSON)
body_raises(req) == req.content_type # MULTIPART /\ ~is_json(req)

request_body_of(req) ==
    IF req.content_type = MULTIPART THEN request_form(req) ELSE req.json

\* `not request_body`
Falsy(body) == DOMAIN body = {}

-----------------------------------------------------------------------------
(* Helpers of app.py *)

Lower(ext) ==
    CASE ext = "PNG" -> "png"
      [] ext = "JPG" -> "jpg"
      [] OTHER -> ext

\* allowed_file(filename)
allowed_file(file) == file.dot /\ Lower(file.ext) \in ALLOWED_EXTENSIONS

\* werkzeug's secure_filename(filename): the path components are dropped.
secure_filename(file) ==
    Str((IF file.stem = "../logo" THEN "logo" ELSE file.stem) \o "." \o file.ext)

handle_missing_invalid_fields_NoTypes(request_body, required_fields) ==
    LET missing(field) == field \notin DOMAIN request_body
    IN  [missing_fields |-> SelectSeq(required_fields, missing),
         invalid_fields |-> <<>>]

\* handle_missing_invalid_fields(request_body, required_fields): every
\* required field has the type str.
handle_missing_invalid_fields(request_body, required_fields) ==
    LET missing(field) == field \notin DOMAIN request_body
        invalid(field) == field \in DOMAIN request_body
                          /\ ~IsStr(request_body[field])
    IN  [missing_fields |-> SelectSeq(required_fields, missing),
         invalid_fields |-> SelectSeq(required_fields, invalid)]

create_logo_NoDefault(req) ==
    LET logo_file == request_files_logo(req)
    IN  IF logo_file.present /\ allowed_file(logo_file)
        THEN secure_filename(logo_file)
        ELSE None

\* The logo of a create in experience() and education(): the default unless
\* an allowed file named "logo" was uploaded.
create_logo(req) ==
    LET logo_file == request_files_logo(req)
    IN  IF logo_file.present /\ allowed_file(logo_file)
        THEN secure_filename(logo_file)
        ELSE DEFAULT_LOGO

\* save_logo_file(logo_file)
save_logo_file(logo_file) ==
    IF logo_file.present /\ allowed_file(logo_file)
    THEN secure_filename(logo_file)
    ELSE DEFAULT_LOGO

-----------------------------------------------------------------------------
(* /custom-section and /custom-sections *)

\* add_custom_section()
add_custom_section(d, req) ==
    IF ~is_json(req) THEN Result(d, Error(415, "Unsupported Media Type"))
    ELSE
    LET request_data == req.json
    IN  IF Falsy(request_data)
        THEN Result(d, Error(400, "Request body must be JSON"))
        ELSE IF "title" \notin DOMAIN request_data
                \/ "content" \notin DOMAIN request_data
        THEN Result(d, Error(400, "Both 'title' and 'content' are required"))
        ELSE
        LET new_section == [title |-> request_data["title"],
                            content |-> request_data["content"]]
        IN  Result([d EXCEPT !.custom_sections = Append(@, new_section)],
                   Response(201, "Custom section added successfully", "",
                            NoIndex, "object", <<new_section>>, <<>>, <<>>))

\* get_custom_sections()
get_custom_sections(d, req) == Result(d, JsonList(d.custom_sections))

-----------------------------------------------------------------------------
(* /resume/experience *)

\* experience(): GET lists the records, POST appends one.
experience(d, req) ==
    IF req.method = "GET" THEN Result(d, JsonList(d.experience))
    ELSE IF req.method = "POST" THEN
        IF body_raises(req) THEN Result(d, Error(415, "Unsupported Media Type"))
        ELSE
        LET request_body == request_body_of(req)
            checked == handle_missing_invalid_fields(request_body, ExperienceFields)
        IN  IF Falsy(request_body)
            THEN Result(d, Error(400, "Request must be JSON or include form data"))
            ELSE IF checked.missing_fields # <<>> \/ checked.invalid_fields # <<>>
            THEN Result(d, ValidationFailed(checked.missing_fields,
                                            checked.invalid_fields))
            ELSE
            LET new_experience ==
                    Experience(request_body["title"], request_body["company"],
                               request_body["start_date"], request_body["end_date"],
                               request_body["description"], create_logo(req))
                appended == Append(d.experience, new_experience)
            IN  Result([d EXCEPT !.experience = appended],
                       Created("New experience created", Len(appended) - 1))
    ELSE Result(d, Message(200, ""))

\* experience_by_index(index): registered for GET and PUT, it answers both
\* with the record at index.
experience_by_index(d, req) ==
    IF 0 <= Len(d.experience) /\ req.index < Len(d.experience)
    THEN Result(d, JsonObject(200, d.experience[req.index + 1]))
    ELSE Result(d, Error(404, "Experience not found"))

-----------------------------------------------------------------------------
(* /resume/education *)

\* education(): GET lists the records, POST appends one.
education(d, req) ==
    IF req.method = "GET" THEN Result(d, JsonList(d.education))
    ELSE IF req.method = "POST" THEN
        IF body_raises(req) THEN Result(d, Error(415, "Unsupported Media Type"))
        ELSE
        LET request_body == request_body_of(req)
            checked == handle_missing_invalid_fields(request_body, EducationFields)
        IN  IF Falsy(request_body)
            THEN Result(d, Error(400, "Request must be JSON or include form data"))
            ELSE IF checked.missing_fields # <<>> \/ checked.invalid_fields # <<>>
            THEN Result(d, ValidationFailed(checked.missing_fields,
                                            checked.invalid_fields))
            ELSE
            LET new_education ==
                    Education(request_body["course"], request_body["school"],
                              request_body["start_date"], request_body["end_date"],
                              request_body["grade"], create_logo(req))
                appended == Append(d.education, new_education)
            IN  Result([d EXCEPT !.education = appended],
                       Created("New education created", Len(appended) - 1))
    ELSE Result(d, Message(400, ""))

\* The PUT branch of education_by_index(index) once the payload is valid:
\* the logo of the record at index is read first, then the fields are
\* assigned one by one.
education_update(d, req, request_body) ==
    LET index == req.index
        logo_file == request_files_logo(req)
    IN  IF ~(index < Len(d.education))
        THEN Result(d, Unhandled("IndexError"))
        ELSE
        LET logo_filename ==
                IF logo_file.present /\ allowed_file(logo_file)
                THEN secure_filename(logo_file)
                ELSE d.education[index + 1].logo
            updated == [d.education[index + 1] EXCEPT
                            !.course = request_body["course"],
                            !.school = request_body["school"],
                            !.start_date = request_body["start_date"],
                            !.end_date = request_body["end_date"],
                            !.grade = request_body["grade"],
                            !.logo = logo_filename]
        IN  Result([d EXCEPT !.education[index + 1] = updated],
                   Updated("Education updated", index))

\* education_by_index(index)
education_by_index(d, req) ==
    IF req.method = "GET" THEN
        IF 0 <= req.index /\ req.index < Len(d.education)
        THEN Result(d, JsonObject(200, d.education[req.index + 1]))
        ELSE Result(d, Error(404, "Education entry not found"))
    ELSE IF req.method = "PUT" THEN
        IF body_raises(req) THEN Result(d, Error(415, "Unsupported Media Type"))
        ELSE
        LET request_body == request_body_of(req)
            checked == handle_missing_invalid_fields(request_body, EducationFields)
        IN  IF Falsy(request_body)
            THEN Result(d, Error(400, "Request must be JSON or include form data"))
            ELSE IF checked.missing_fields # <<>> \/ checked.invalid_fields # <<>>
            THEN Result(d, ValidationFailed(checked.missing_fields,
                                            checked.invalid_fields))
            ELSE education_update(d, req, request_body)
    ELSE Result(d, Message(400, ""))

Pop_Last(list, index) == SubSeq(list, 1, Len(list) - 1)

\* list.pop(index) for 0 <= index < len(list)
Pop(list, index) ==
    SubSeq(list, 1, index) \o SubSeq(list, index + 2, Len(list))

\* delete_education(index)
delete_education(d, req) ==
    IF 0 <= req.index /\ req.index < Len(d.education)
    THEN Result([d EXCEPT !.education = Pop(d.education, req.index)],
                Message(200, "Education entry successfully deleted"))
    ELSE Result(d, Error(404, "Education entry not found"))

-----------------------------------------------------------------------------
(* /resume/skill *)

\* handle_get_skill(): the query parameter id selects one record.
handle_get_skill(d, req) ==
    IF req.id.kind = "absent" THEN Result(d, JsonList(d.skill))
    ELSE IF req.id.kind # "digits" THEN Result(d, Error(400, "Invalid request"))
    ELSE IF 0 <= req.id.n /\ req.id.n < Len(d.skill)
    THEN Result(d, JsonObject(200, d.skill[req.id.n + 1]))
    ELSE Result(d, Error(404, "Skill not found"))

\* handle_post_skill()
handle_post_skill(d, req) ==
    IF body_raises(req) THEN Result(d, Error(415, "Unsupported Media Type"))
    ELSE
    LET request_body == request_body_of(req)
        checked == handle_missing_invalid_fields(request_body, SkillFields)
    IN  IF Falsy(request_body)
        THEN Result(d, Error(400, "Request must be JSON or include form data"))
        ELSE IF checked.missing_fields # <<>> \/ checked.invalid_fields # <<>>
        THEN Result(d, ValidationFailed(checked.missing_fields,
                                        checked.invalid_fields))
        ELSE
        LET new_skill == Skill(request_body["name"], request_body["proficiency"],
                               save_logo_file(request_files_logo(req)))
            appended == Append(d.skill, new_skill)
        IN  Result([d EXCEPT !.skill = appended],
                   Created("New skill created", Len(appended) - 1))

\* dict.get(key, default)
Get(body, key, default) == IF key \in DOMAIN body THEN body[key] ELSE default

\* handle_put_skill(): the record at the query parameter id takes the name,
\* proficiency and logo the JSON body has, and keeps the others.
handle_put_skill(d, req) ==
    IF ~is_json(req) THEN Result(d, Error(415, "Unsupported Media Type"))
    ELSE IF req.id.kind # "digits" THEN Result(d, Error(400, "Invalid skill ID"))
    ELSE
    LET request_body == req.json
        skill_id == req.id.n
    IN  IF 0 <= skill_id /\ skill_id < Len(d.skill)
        THEN IF Falsy(request_body)
             THEN Result(d, Error(400, "Request must be JSON"))
             ELSE
             LET existing_skill == d.skill[skill_id + 1]
                 merged == Skill(Get(request_body, "name", existing_skill.name),
                                 Get(request_body, "proficiency",
                                     existing_skill.proficiency),
                                 Get(request_body, "logo", existing_skill.logo))
             IN  Result([d EXCEPT !.skill[skill_id + 1] = merged],
                        JsonObject(200, merged))
        ELSE Result(d, Error(404, "Skill not found"))

\* skill()
skill(d, req) ==
    IF req.method = "GET" THEN handle_get_skill(d, req)
    ELSE IF req.method = "POST" THEN handle_post_skill(d, req)
    ELSE IF req.method = "PUT" THEN handle_put_skill(d, req)
    ELSE Result(d, Message(400, ""))

\* delete_skill(skill_index)
delete_skill(d, req) ==
    IF 0 <= req.index /\ req.index < Len(d.skill)
    THEN Result([d EXCEPT !.skill = Pop(d.skill, req.index)],
                Message(200, "Skill successfully deleted"))
    ELSE Result(d, Error(404, "Skill not found"))

-----------------------------------------------------------------------------
(* helpers.py *)

\* validate_fields(field_names, request_data)
validate_fields_NoNullString(field_names, request_data) ==
    LET absent(field) == \/ field \notin DOMAIN request_data
                         \/ request_data[field] \in {None, Str("")}
    IN  SelectSeq(field_names, absent)

validate_fields(field_names, request_data) ==
    LET absent(field) == \/ field \notin DOMAIN request_data
                         \/ request_data[field] \in {None, Str(""), Str("null")}
    IN  SelectSeq(field_names, absent)

\* The phone numbers a client submits, as the phonenumbers library sees
\* them: "+1" does not parse, "+123456789" parses to no valid number.
StartsWithPlus(s) == s \in {"+14155552671", "+123456789", "+1"}

ParseRaises(s) == s = "+1"

IsValidNumber(s) == s = "+14155552671"

\* validate_phone_number(phone_number): "True", "False", or the exception
\* that leaves it (only NumberParseException is caught).
validate_phone_number(phone_number) ==
    IF phone_number \in {None, Str("")} THEN "False"
    ELSE IF ~IsStr(phone_number) THEN "AttributeError"
    ELSE IF ~StartsWithPlus(phone_number.val) THEN "False"
    ELSE IF ParseRaises(phone_number.val) THEN "False"
    ELSE IF IsValidNumber(phone_number.val) THEN "True" ELSE "False"

-----------------------------------------------------------------------------
(* /resume/user_information *)

user_information_store_NotStored(d, request_data) ==
    LET is_valid_phone_number ==
            validate_phone_number(request_data["phone_number"])
    IN  IF is_valid_phone_number \notin {"True", "False"}
        THEN Result(d, Unhandled(is_valid_phone_number))
        ELSE IF is_valid_phone_number = "False"
        THEN Result(d, Error(400, "Invalid phone number"))
        ELSE Result(d, JsonObject(201, request_data))

user_information_store_Early(d, request_data) ==
    LET is_valid_phone_number ==
            validate_phone_number(request_data["phone_number"])
        stored == [d EXCEPT !.user_information =
                       [kind |-> "dict", items |-> <<request_data>>]]
    IN  IF is_valid_phone_number \notin {"True", "False"}
        THEN Result(stored, Unhandled(is_valid_phone_number))
        ELSE IF is_valid_phone_number = "False"
        THEN Result(stored, Error(400, "Invalid phone number"))
        ELSE Result(stored, JsonObject(201, request_data))

\* The end of user_information(): the phone number is validated, then the
\* request's JSON object itself becomes the stored value.
user_information_store(d, request_data) ==
    LET is_valid_phone_number ==
            validate_phone_number(request_data["phone_number"])
    IN  IF is_valid_phone_number \notin {"True", "False"}
        THEN Result(d, Unhandled(is_valid_phone_number))
        ELSE IF is_valid_phone_number = "False"
        THEN Result(d, Error(400, "Invalid phone number"))
        ELSE Result([d EXCEPT !.user_information =
                         [kind |-> "dict", items |-> <<request_data>>]],
                    JsonObject(201, request_data))

\* user_information(): GET returns what is stored; POST and PUT validate
\* and store.
user_information(d, req) ==
    IF req.method = "GET"
    THEN Result(d, Response(200, "", "", NoIndex,
                            IF d.user_information.kind = "list"
                            THEN "list" ELSE "object",
                            d.user_information.items, <<>>, <<>>))
    ELSE IF ~is_json(req) THEN Result(d, Error(415, "Unsupported Media Type"))
    ELSE
    LET request_data == req.json
        error == validate_fields(UserInformationFields, request_data)
    IN  IF Falsy(request_data)
        THEN Result(d, Error(400, "Request must be JSON"))
        ELSE IF error # <<>>
        THEN Result(d, Response(400, "", "parameter(s) is required", NoIndex,
                                "", <<>>, error, <<>>))
        ELSE user_information_store(d, request_data)

-----------------------------------------------------------------------------
(* The URL map *)

CUSTOM_SECTION == "/custom-section"

CUSTOM_SECTIONS == "/custom-sections"

EXPERIENCE == "/resume/experience"

EXPERIENCE_INDEX == "/resume/experience/<int:index>"

EDUCATION == "/resume/education"

EDUCATION_INDEX == "/resume/education/<int:index>"

SKILL == "/resume/skill"

SKILL_INDEX == "/resume/skill/<int:skill_index>"

USER_INFORMATION == "/resume/user_information"

\* The path the test of the spell check posts to; no rule of the URL map
\* has it.
SPELLCHECK == "/resume/spellcheck"

Rule(rule, methods, endpoint, arguments) ==
    [rule |-> rule, methods |-> methods, endpoint |-> endpoint,
     arguments |-> arguments]

\* The rules in the order the decorators register them: of two decorators
\* on one function the lower one runs first.
url_map ==
    <<Rule(CUSTOM_SECTION, {"POST"}, "add_custom_section", {}),
      Rule(CUSTOM_SECTIONS, {"GET"}, "get_custom_sections", {}),
      Rule(EXPERIENCE, {"GET", "POST"}, "experience", {}),
      Rule(EXPERIENCE_INDEX, {"GET", "PUT"}, "experience_by_index", {"index"}),
      Rule(EDUCATION_INDEX, {"GET"}, "education", {"index"}),
      Rule(EDUCATION, {"GET", "POST"}, "education", {}),
      Rule(EDUCATION_INDEX, {"GET", "PUT"}, "education_by_index", {"index"}),
      Rule(EDUCATION_INDEX, {"DELETE"}, "delete_education", {"index"}),
      Rule(SKILL, {"GET", "POST", "PUT"}, "skill", {}),
      Rule(USER_INFORMATION, {"GET", "POST", "PUT"}, "user_information", {}),
      Rule(SKILL_INDEX, {"DELETE"}, "delete_skill", {"skill_index"})>>

\* The parameters each view function declares.
view_parameters ==
    [add_custom_section |-> {}, get_custom_sections |-> {},
     experience |-> {}, experience_by_index |-> {"index"}, education |-> {},
     education_by_index |-> {"index"}, delete_education |-> {"index"},
     skill |-> {}, user_information |-> {}, delete_skill |-> {"skill_index"}]

\* The view function of an endpoint, called with the URL's arguments: a
\* keyword argument the function does not declare is a TypeError.
call_view(rule, d, req) ==
    IF rule.arguments # view_parameters[rule.endpoint]
    THEN Result(d, Unhandled("TypeError"))
    ELSE CASE rule.endpoint = "add_custom_section" -> add_custom_section(d, req)
           [] rule.endpoint = "get_custom_sections" -> get_custom_sections(d, req)
           [] rule.endpoint = "experience" -> experience(d, req)
           [] rule.endpoint = "experience_by_index" -> experience_by_index(d, req)
           [] rule.endpoint = "education" -> education(d, req)
           [] rule.endpoint = "education_by_index" -> education_by_index(d, req)
           [] rule.endpoint = "delete_education" -> delete_education(d, req)
           [] rule.endpoint = "skill" -> skill(d, req)
           [] rule.endpoint = "user_information" -> user_information(d, req)
           [] rule.endpoint = "delete_skill" -> delete_skill(d, req)

\* The first rule, in registration order, whose path and method match.
dispatch_request(d, req) ==
    LET same_path == {i \in 1..Len(url_map) : url_map[i].rule = req.path}
        matching == {i \in same_path : req.method \in url_map[i].methods}
        first == CHOOSE i \in matching : \A j \in matching : i <= j
    IN  IF same_path = {} THEN Result(d, Error(404, "Not Found"))
        ELSE IF matching = {} THEN Result(d, Error(405, "Method Not Allowed"))
        ELSE call_view(url_map[first], d, req)

-----------------------------------------------------------------------------
(* The requests clients send *)

\* A payload for the required fields F that leaves out the fields of M and
\* gives those of I a number instead of a string.
Payload(F, M, I) ==
    [f \in Range(F) \ M |-> IF f \in I THEN Num ELSE NewVal(f)]

ValidPayload(F) == Payload(F, {}, {})

WithLogo(body) == body @@ ("logo" :> NewVal("logo"))

BadChoices(F) ==
    {c \in (SUBSET Range(F)) \X (SUBSET Range(F)) :
        /\ c[1] \cap c[2] = {}
        /\ Cardinality(c[1]) + Cardinality(c[2]) <= MaxBad}

Payloads(F) ==
    {Payload(F, c[1], c[2]) : c \in BadChoices(F)}
        \cup {EmptyBody, WithLogo(ValidPayload(F))}

Files == {NoFile, File("../logo", "PNG"), File("notes", "txt")}

JsonRequest(method, path, index, body, id) ==
    Request(method, path, index, JSON, body, EmptyBody, NoFile, id)

\* A multipart request, as a client sends it and with the bare media type
\* as its whole Content-Type.
FormRequests(method, path, index, F) ==
    {Request(method, path, index, ct, EmptyBody, ValidPayload(F), file, NoArg) :
        ct \in {MULTIPART_WITH_BOUNDARY, MULTIPART}, file \in Files}

BodyRequests(method, path, index, F) ==
    {JsonRequest(method, path, index, body, NoArg) : body \in Payloads(F)}
        \cup FormRequests(method, path, index, F)

Bare(method, path, index) ==
    JsonRequest(method, path, index, EmptyBody, NoArg)

SkillPutBodies ==
    {EmptyBody,
     Payload(SkillFields, {"proficiency"}, {}),
     ValidPayload(SkillFields),
     Payload(SkillFields, {}, {"name"}),
     WithLogo(ValidPayload(SkillFields))}

SkillIds(d) == {NoArg, WordArg} \cup {DigitsArg(n) : n \in 0..Len(d.skill)}

PhoneNumbers ==
    {Str("+14155552671"), Str("123456"), Str("+1"), Str("+123456789"), Num}

\* A payload the handler accepts.
ValidUserInformation ==
    [ValidPayload(UserInformationFields) EXCEPT
        !["phone_number"] = Str("+14155552671")]

UserInformationBodies ==
    {[ValidUserInformation EXCEPT !["phone_number"] = p] : p \in PhoneNumbers}
    \cup {Payload(UserInformationFields, {f}, {}) :
            f \in Range(UserInformationFields)}
    \cup {[ValidUserInformation EXCEPT !["name"] = v] :
            v \in {None, Str(""), Str("null")}}
    \cup {ValidUserInformation @@ ("nickname" :> NewVal("nickname"))}
    \cup {EmptyBody}

\* The bodies posted to the spell check: arrays of partial records.
SpellcheckBodies ==
    {[experience |-> <<[title |-> "Software Develper",
                        description |-> "Writting Python Code"]>>,
      education |-> <<[course |-> "Comptuer Science"]>>,
      skill |-> <<[name |-> "Pythn"]>>],
     [experience |-> <<[title |-> "Software Develper"]>>,
      education |-> <<>>,
      skill |-> <<>>]}

ExperiencePosts ==
    BodyRequests("POST", EXPERIENCE, NoIndex, ExperienceFields)

EducationPosts == BodyRequests("POST", EDUCATION, NoIndex, EducationFields)

EducationPuts == BodyRequests("PUT", EDUCATION_INDEX, NoIndex, EducationFields)

SkillPosts == BodyRequests("POST", SKILL, NoIndex, SkillFields)

TotalRecords(d) == Len(d.experience) + Len(d.education) + Len(d.skill)

-----------------------------------------------------------------------------
(* The state machine *)

\* What a client remembers of its last create: the collection, the id
\* returned and the payload sent. It forgets it when the store changes again.
NoCreated == [path |-> "", id |-> NoIndex, body |-> EmptyBody]

\* No helper has been called directly.
NoCall == [function |-> ""]

\* The threads of a threaded host, and a thread that handles no request.
Threads == {1, 2}

Idle == [pc |-> "idle", request |-> NoRequest, response |-> NoResponse,
         logo_filename |-> None]

Remember(req, out) ==
    IF /\ req.method = "POST"
       /\ req.path \in {EXPERIENCE, EDUCATION, SKILL}
       /\ out.response.status = 201
    THEN [path |-> req.path, id |-> out.response.id,
          body |-> IF is_json(req) THEN req.json ELSE req.form]
    ELSE IF DataOf(out.data) # data THEN NoCreated ELSE created

Init ==
    /\ data = reset_data
    /\ custom_sections = <<>>
    /\ pre = reset_data
    /\ pre_sections = <<>>
    /\ request = NoRequest
    /\ response = NoResponse
    /\ created = NoCreated
    /\ call = NoCall
    /\ threads = [t \in Threads |-> Idle]

\* One request, handled to completion; the store it found is kept in pre
\* and pre_sections. `request` is bound to one request at a time.
Handle(req) ==
    LET out == dispatch_request(Globals(data, custom_sections), req)
    IN  /\ request = NoRequest
        /\ data' = DataOf(out.data)
        /\ custom_sections' = out.data.custom_sections
        /\ pre' = data
        /\ pre_sections' = custom_sections
        /\ request' = req
        /\ response' = out.response
        /\ created' = Remember(req, out)
        /\ UNCHANGED <<call, threads>>

GetExperience ==
    \E req \in {Bare("GET", EXPERIENCE, NoIndex)} : Handle(req)

PostExperience ==
    /\ TotalRecords(data) < MaxRecords
    /\ \E req \in ExperiencePosts : Handle(req)

GetExperienceByIndex ==
    \E index \in 0..Len(data.experience) :
        Handle(Bare("GET", EXPERIENCE_INDEX, index))

PutExperienceByIndex ==
    \E index \in 0..Len(data.experience) :
        \E body \in {EmptyBody, ValidPayload(ExperienceFields)} :
            Handle(JsonRequest("PUT", EXPERIENCE_INDEX, index, body, NoArg))

DeleteExperienceByIndex ==
    \E index \in 0..Len(data.experience) :
        Handle(Bare("DELETE", EXPERIENCE_INDEX, index))

GetEducation ==
    \E req \in {Bare("GET", EDUCATION, NoIndex)} : Handle(req)

PostEducation ==
    /\ TotalRecords(data) < MaxRecords
    /\ \E req \in EducationPosts : Handle(req)

GetEducationByIndex ==
    \E index \in 0..Len(data.education) :
        Handle(Bare("GET", EDUCATION_INDEX, index))

PutEducationByIndex ==
    \E index \in 0..Len(data.education) :
        \E req \in EducationPuts : Handle([req EXCEPT !.index = index])

DeleteEducation ==
    \E index \in 0..Len(data.education) :
        Handle(Bare("DELETE", EDUCATION_INDEX, index))

GetSkill ==
    \E id \in SkillIds(data) :
        Handle(JsonRequest("GET", SKILL, NoIndex, EmptyBody, id))

PostSkill ==
    /\ TotalRecords(data) < MaxRecords
    /\ \E req \in SkillPosts : Handle(req)

PutSkill ==
    \E id \in SkillIds(data), body \in SkillPutBodies :
        Handle(JsonRequest("PUT", SKILL, NoIndex, body, id))

DeleteSkill ==
    \E index \in 0..Len(data.skill) :
        Handle(Bare("DELETE", SKILL_INDEX, index))

GetUserInformation ==
    \E req \in {Bare("GET", USER_INFORMATION, NoIndex)} : Handle(req)

PostUserInformation ==
    \E method \in {"POST", "PUT"}, body \in UserInformationBodies :
        Handle(JsonRequest(method, USER_INFORMATION, NoIndex, body, NoArg))

PostSpellcheck ==
    \E body \in SpellcheckBodies :
        Handle(JsonRequest("POST", SPELLCHECK, NoIndex, body, NoArg))

\* The response is sent and the request context is popped.
Teardown ==
    /\ request # NoRequest
    /\ request' = NoRequest
    /\ response' = NoResponse
    /\ pre' = data
    /\ pre_sections' = custom_sections
    /\ UNCHANGED <<data, custom_sections, created, call, threads>>

Next ==
    \/ GetExperience
    \/ PostExperience
    \/ GetExperienceByIndex
    \/ PutExperienceByIndex
    \/ DeleteExperienceByIndex
    \/ GetEducation
    \/ PostEducation
    \/ GetEducationByIndex
    \/ PutEducationByIndex
    \/ DeleteEducation
    \/ GetSkill
    \/ PostSkill
    \/ PutSkill
    \/ DeleteSkill
    \/ GetUserInformation
    \/ PostUserInformation
    \/ PostSpellcheck
    \/ Teardown

Spec == Init /\ [][Next]_vars

-----------------------------------------------------------------------------
(* The custom sections driven by requests *)

CustomSectionValues == {Str("Awards"), Num}

CustomSectionBodies ==
    {[title |-> t, content |-> c] :
        t \in CustomSectionValues, c \in CustomSectionValues}
    \cup {[title |-> Str("Awards")], [content |-> Str("Awards")], EmptyBody,
          [title |-> Str("Awards"), content |-> Str("Awards"),
           color |-> Str("red")]}

\* A request whose body is no JSON.
TextRequest(method, path) ==
    Request(method, path, NoIndex, "text/plain", EmptyBody, EmptyBody,
            NoFile, NoArg)

AddCustomSection ==
    /\ Len(custom_sections) < MaxSections
    /\ \E req \in {JsonRequest("POST", CUSTOM_SECTION, NoIndex, body, NoArg) :
                        body \in CustomSectionBodies}
                    \cup {TextRequest("POST", CUSTOM_SECTION)} :
          Handle(req)

GetCustomSections ==
    \E req \in {Bare("GET", CUSTOM_SECTIONS, NoIndex)} : Handle(req)

NextCustom ==
    \/ AddCustomSection
    \/ GetCustomSections
    \/ Teardown

SpecCustom == Init /\ [][NextCustom]_vars

-----------------------------------------------------------------------------
(* Two requests handled by two threads *)

\* The payload of an update: strings that differ from those of a create.
PutPayload(F) == [f \in Range(F) |-> Str(f \o "#put")]

\* The requests the threads handle: creates of experience and education,
\* and updates and deletes of the first education record. All carry a valid
\* JSON payload, so each reaches the statements that touch `data`.
ThreadRequests(d) ==
    {JsonRequest("POST", EXPERIENCE, NoIndex, ValidPayload(ExperienceFields), NoArg),
     JsonRequest("POST", EDUCATION, NoIndex, ValidPayload(EducationFields), NoArg)}
    \cup (IF d.education = <<>> THEN {}
          ELSE {JsonRequest("PUT", EDUCATION_INDEX, 0,
                            PutPayload(EducationFields), NoArg),
                Bare("DELETE", EDUCATION_INDEX, 0)})

\* The creates a thread has received and not yet appended.
Pending == Cardinality({t \in Threads : threads[t].pc = "append"})

\* The statement a request reaches first after its payload is validated.
FirstStatement(req) ==
    CASE req.method = "POST" -> "append"
      [] req.method = "PUT" -> "read_logo"
      [] req.method = "DELETE" -> "check"

\* The assignments of education_by_index, in the order of the source.
Assignments == <<"course", "school", "start_date", "end_date", "grade", "logo">>

AfterAssignment(field) ==
    CASE field = "course" -> "school"
      [] field = "school" -> "start_date"
      [] field = "start_date" -> "end_date"
      [] field = "end_date" -> "grade"
      [] field = "grade" -> "logo"
      [] field = "logo" -> "done"

Step(t, pc, resp) ==
    threads' = [threads EXCEPT ![t].pc = pc, ![t].response = resp]

Others == <<custom_sections, pre, pre_sections, request, response, created, call>>

\* A thread takes a request; the validation of the payload reads nothing
\* but the request.
Receive(t) ==
    /\ threads[t].pc = "idle"
    /\ \E req \in ThreadRequests(data) :
          /\ req.method = "POST" =>
                Len(data.experience) + Len(data.education) + Pending
                    < MaxThreadedRecords
          /\ threads' = [threads EXCEPT ![t] =
                            [pc |-> FirstStatement(req), request |-> req,
                             response |-> NoResponse, logo_filename |-> None]]
    /\ UNCHANGED <<data, Others>>

\* data["experience"].append(new_experience),
\* data["education"].append(new_education)
AppendRecord(t) ==
    LET req == threads[t].request
        body == req.json
    IN  /\ threads[t].pc = "append"
        /\ data' =
              IF req.path = EXPERIENCE
              THEN [data EXCEPT !.experience = Append(@,
                        Experience(body["title"], body["company"],
                                   body["start_date"], body["end_date"],
                                   body["description"], create_logo(req)))]
              ELSE [data EXCEPT !.education = Append(@,
                        Education(body["course"], body["school"],
                                  body["start_date"], body["end_date"],
                                  body["grade"], create_logo(req)))]
        /\ Step(t, "new_id", NoResponse)
        /\ UNCHANGED Others

\* new_experience_id = len(data["experience"]) - 1 and the return,
\* new_education_id = len(data["education"]) - 1 and the return
NewId(t) ==
    LET req == threads[t].request
    IN  /\ threads[t].pc = "new_id"
        /\ Step(t, "done",
                IF req.path = EXPERIENCE
                THEN Created("New experience created", Len(data.experience) - 1)
                ELSE Created("New education created", Len(data.education) - 1))
        /\ UNCHANGED <<data, Others>>

\* logo_filename = data["education"][index].logo
ReadLogo(t) ==
    LET index == threads[t].request.index
    IN  /\ threads[t].pc = "read_logo"
        /\ IF index < Len(data.education)
           THEN threads' = [threads EXCEPT
                               ![t].pc = "course",
                               ![t].logo_filename = data.education[index + 1].logo]
           ELSE Step(t, "done", Unhandled("IndexError"))
        /\ UNCHANGED <<data, Others>>

\* data["education"][index].<field> = request_body[<field>], and after the
\* last of them the return; the record at index is looked up again by each
\* assignment.
AssignField(t) ==
    LET index == threads[t].request.index
        field == threads[t].pc
        value == IF field = "logo" THEN threads[t].logo_filename
                 ELSE threads[t].request.json[field]
    IN  /\ field \in Range(Assignments)
        /\ IF index < Len(data.education)
           THEN /\ data' = [data EXCEPT !.education[index + 1][field] = value]
                /\ Step(t, AfterAssignment(field),
                        IF field = "logo"
                        THEN Updated("Education updated", index)
                        ELSE NoResponse)
           ELSE /\ data' = data
                /\ Step(t, "done", Unhandled("IndexError"))
        /\ UNCHANGED Others

\* if 0 <= index < len(data["education"])
CheckIndex(t) ==
    LET index == threads[t].request.index
    IN  /\ threads[t].pc = "check"
        /\ IF 0 <= index /\ index < Len(data.education)
           THEN Step(t, "pop", NoResponse)
           ELSE Step(t, "done", Error(404, "Education entry not found"))
        /\ UNCHANGED <<data, Others>>

\* removed_education = data["education"].pop(index) and the return
PopRecord(t) ==
    LET index == threads[t].request.index
    IN  /\ threads[t].pc = "pop"
        /\ IF index < Len(data.education)
           THEN /\ data' = [data EXCEPT !.education = Pop(@, index)]
                /\ Step(t, "done",
                        Message(200, "Education entry successfully deleted"))
           ELSE /\ data' = data
                /\ Step(t, "done", Unhandled("IndexError"))
        /\ UNCHANGED Others

\* Both threads have answered; the host takes the next requests.
Join ==
    /\ \A t \in Threads : threads[t].pc = "done"
    /\ threads' = [t \in Threads |-> Idle]
    /\ pre' = data
    /\ UNCHANGED <<data, custom_sections, pre_sections, request, response,
                   created, call>>

NextThreaded ==
    \/ \E t \in Threads : Receive(t)
    \/ \E t \in Threads : AppendRecord(t)
    \/ \E t \in Threads : NewId(t)
    \/ \E t \in Threads : ReadLogo(t)
    \/ \E t \in Threads : AssignField(t)
    \/ \E t \in Threads : CheckIndex(t)
    \/ \E t \in Threads : PopRecord(t)
    \/ Join

SpecThreaded == Init /\ [][NextThreaded]_vars

-----------------------------------------------------------------------------
(* The helpers called directly *)

\* The sequences without repetition over the elements of S.
Orderings(S) ==
    {seq \in UNION {[1..n -> S] : n \in 0..Cardinality(S)} :
        \A i, j \in DOMAIN seq : seq[i] = seq[j] => i = j}

FieldNameLists == Orderings(Range(UserInformationFields))

FieldValues == {None, Str(""), Str("null"), Str("John Doe"), Num}

RequestDatas ==
    UNION {[S -> FieldValues] : S \in SUBSET Range(UserInformationFields)}

CallValidateFields ==
    /\ call = NoCall
    /\ \E field_names \in FieldNameLists, request_data \in RequestDatas :
          call' = [function |-> "validate_fields",
                   field_names |-> field_names,
                   request_data |-> request_data,
                   missing |-> validate_fields(field_names, request_data)]
    /\ UNCHANGED <<data, custom_sections, pre, pre_sections, request, response,
                   created, threads>>

CallValidatePhoneNumber ==
    /\ call = NoCall
    /\ \E phone_number \in PhoneNumbers \cup {None, Str("")} :
          call' = [function |-> "validate_phone_number",
                   phone_number |-> phone_number,
                   outcome |-> validate_phone_number(phone_number)]
    /\ UNCHANGED <<data, custom_sections, pre, pre_sections, request, response,
                   created, threads>>

\* The call has returned and its result has been looked at.
Return ==
    /\ call # NoCall
    /\ call' = NoCall
    /\ UNCHANGED <<data, custom_sections, pre, pre_sections, request, response,
                   created, threads>>

NextHelpers ==
    \/ CallValidateFields
    \/ CallValidatePhoneNumber
    \/ Return

SpecHelpers == Init /\ [][NextHelpers]_vars

-----------------------------------------------------------------------------
(* Properties *)

Collection(d, path) ==
    CASE path \in {EXPERIENCE, EXPERIENCE_INDEX} -> d.experience
      [] path \in {EDUCATION, EDUCATION_INDEX} -> d.education
      [] path \in {SKILL, SKILL_INDEX} -> d.skill

RequiredFields(path) ==
    CASE path \in {EXPERIENCE, EXPERIENCE_INDEX} -> ExperienceFields
      [] path \in {EDUCATION, EDUCATION_INDEX} -> EducationFields
      [] path \in {SKILL, SKILL_INDEX} -> SkillFields

\* The payload a request carries, as the framework parses it.
Submitted(req) == IF is_json(req) THEN req.json ELSE request_form(req)

IsCreate ==
    request.method = "POST" /\ request.path \in {EXPERIENCE, EDUCATION, SKILL}

\* The record holds, for each required field, the value the payload gives.
SameFields(record, body, F) ==
    \A f \in Range(F) :
        f \in DOMAIN record /\ f \in DOMAIN body /\ record[f] = body[f]

\* Some required field is absent from the payload or is no string.
Bad(body, F) ==
    \E f \in Range(F) : f \notin DOMAIN body \/ ~IsStr(body[f])

\* The request reads the record at index i of the collection of `path`.
RetrievesByIndex(req, path, i) ==
    /\ req.method = "GET"
    /\ \/ path = EXPERIENCE /\ req.path = EXPERIENCE_INDEX /\ req.index = i
       \/ path = EDUCATION /\ req.path = EDUCATION_INDEX /\ req.index = i
       \/ path = SKILL /\ req.path = SKILL /\ req.id = DigitsArg(i)

\* The request lists the collection of `path`.
Lists(req, path) ==
    req.method = "GET" /\ req.path = path /\ req.id = NoArg

\* C1: after a create returned an id, and while the store has not changed
\* since, retrieving by that id (by index, or as position id of the listed
\* collection) returns a record whose fields equal the submitted ones.
C1_RoundTrip ==
    created # NoCreated =>
        LET F == RequiredFields(created.path)
        IN  /\ RetrievesByIndex(request, created.path, created.id) =>
                /\ response.status = 200
                /\ response.shape = "object"
                /\ SameFields(response.items[1], created.body, F)
            /\ Lists(request, created.path) =>
                /\ response.status = 200
                /\ response.shape = "list"
                /\ created.id < Len(response.items)
                /\ SameFields(response.items[created.id + 1], created.body, F)

\* C2: a create with a valid JSON payload is answered 201, and a create
\* answered 201 appended exactly one record to the end of its collection,
\* returned the old length as id, and changed nothing else.
C2_CreateAppends ==
    /\ (IsCreate /\ is_json(request)
            /\ ~Bad(request.json, RequiredFields(request.path))) =>
          response.status = 201
    /\ (IsCreate /\ response.status = 201) =>
        LET old == Collection(pre, request.path)
            new == Collection(data, request.path)
        IN  /\ Len(new) = Len(old) + 1
            /\ SubSeq(new, 1, Len(old)) = old
            /\ response.id = Len(old)
            /\ \A c \in {"experience", "education", "skill"} :
                  Len(data[c]) >= Len(pre[c])
                  /\ SubSeq(data[c], 1, Len(pre[c])) = pre[c]
            /\ data.user_information = pre.user_information

C2_Witness ==
    /\ IsCreate
    /\ response.status = 201
    /\ request.path = EDUCATION
    /\ Len(pre.education) = 1
    /\ Len(data.education) = 2

\* The response lists exactly the missing and the invalid required fields
\* of the payload, each once.
ListsExactly(resp, body, F) ==
    /\ Range(resp.missing_fields) = {f \in Range(F) : f \notin DOMAIN body}
    /\ Len(resp.missing_fields) = Cardinality(Range(resp.missing_fields))
    /\ Range(resp.invalid_fields) =
            {f \in Range(F) : f \in DOMAIN body /\ ~IsStr(body[f])}
    /\ Len(resp.invalid_fields) = Cardinality(Range(resp.invalid_fields))

C4_ListIds ==
    (request.method = "GET" /\ request.path \in {EXPERIENCE, EDUCATION}) =>
        LET stored == Collection(data, request.path)
            F == RequiredFields(request.path)
        IN  /\ response.status = 200
            /\ Len(response.items) = Len(stored)
            /\ \A i \in 1..Len(stored) :
                  /\ SameFields(response.items[i], stored[i], F)
                  /\ response.items[i].id = IntVal(i - 1)

\* C5: DELETE on education or skill at an index in bounds answers 200 and
\* removes exactly that record, the later ones moving down by one; at an
\* index out of bounds it answers 404 and removes nothing.
C5_Delete ==
    (request.method = "DELETE" /\ request.path \in {EDUCATION_INDEX, SKILL_INDEX}) =>
        LET old == Collection(pre, request.path)
            new == Collection(data, request.path)
            i == request.index
        IN  IF i < Len(old)
            THEN /\ response.status = 200
                 /\ Len(new) = Len(old) - 1
                 /\ \A k \in 1..i : new[k] = old[k]
                 /\ \A k \in (i + 1)..Len(new) : new[k] = old[k + 1]
            ELSE /\ response.status = 404
                 /\ new = old

C5_Witness ==
    /\ request.method = "DELETE"
    /\ request.path \in {EDUCATION_INDEX, SKILL_INDEX}
    /\ request.index = 0
    /\ response.status = 200
    /\ Len(Collection(pre, request.path)) = 2
    /\ Collection(pre, request.path)[1] # Collection(pre, request.path)[2]
    /\ Collection(data, request.path) = <<Collection(pre, request.path)[2]>>

\* C6: DELETE /resume/experience/{index} answers 200 with the message
\* "Experience entry successfully deleted" and shortens the list by one when
\* the index is in bounds, and 404 "Experience entry not found" otherwise.
C6_DeleteExperience ==
    (request.method = "DELETE" /\ request.path = EXPERIENCE_INDEX) =>
        IF request.index < Len(pre.experience)
        THEN /\ response.status = 200
             /\ response.message = "Experience entry successfully deleted"
             /\ Len(data.experience) = Len(pre.experience) - 1
        ELSE /\ response.status = 404
             /\ response.error = "Experience entry not found"

\* C7: retrieve-by-index on experience, education and skill returns the
\* record stored at the index when it is in bounds, and 404 otherwise.
C7_Retrieve ==
    \A path \in {EXPERIENCE, EDUCATION, SKILL} :
        \A i \in 0..Len(Collection(data, path)) :
            RetrievesByIndex(request, path, i) =>
                IF i < Len(Collection(data, path))
                THEN /\ response.status = 200
                     /\ response.shape = "object"
                     /\ response.items = <<Collection(data, path)[i + 1]>>
                ELSE response.status = 404

\* The request is a PUT on the record at index i of the collection of `path`.
Updates(req, path, i) ==
    /\ req.method = "PUT"
    /\ \/ path = EXPERIENCE /\ req.path = EXPERIENCE_INDEX /\ req.index = i
       \/ path = EDUCATION /\ req.path = EDUCATION_INDEX /\ req.index = i
       \/ path = SKILL /\ req.path = SKILL /\ req.id = DigitsArg(i)

\* C8: a PUT on education or skill at an index out of range answers 404,
\* whatever the body.
C8_PutOutOfRange ==
    \A path \in {EDUCATION, SKILL} :
        Updates(request, path, Len(Collection(pre, path))) =>
            response.status = 404

\* The payload of the request would pass the validation of a create.
PassesValidation(req, F) ==
    ~body_raises(req) /\ ~Bad(request_body_of(req), F)

\* C9: a PUT at an index in bounds, with a payload a create would accept,
\* answers 200 and overwrites the record at that index with the submitted
\* values, leaving the length and every other record as they were.
C9_PutOverwrites ==
    \A path \in {EXPERIENCE, EDUCATION, SKILL} :
        \A i \in 0..(Len(Collection(pre, path)) - 1) :
            (Updates(request, path, i)
             /\ PassesValidation(request, RequiredFields(path))) =>
                LET old == Collection(pre, path)
                    new == Collection(data, path)
                IN  /\ response.status = 200
                    /\ Len(new) = Len(old)
                    /\ SameFields(new[i + 1], request_body_of(request),
                                  RequiredFields(path))
                    /\ \A k \in 1..Len(old) : k # i + 1 => new[k] = old[k]

\* C10: a request that is not answered 200 or 201 (a 4xx answer or an
\* unhandled exception) leaves the whole store as it found it.
C10_FailureChangesNothing ==
    (request # NoRequest /\ response.status \notin {200, 201}) => data = pre

C10_Witness ==
    /\ request.method = "PUT"
    /\ request.path = EDUCATION_INDEX
    /\ response.status = 500
    /\ ~Bad(request.json, EducationFields)
    /\ data = pre

IsUserInformationWrite ==
    /\ request.method \in {"POST", "PUT"}
    /\ request.path = USER_INFORMATION
    /\ is_json(request)

AllPresent(body, F) == \A f \in Range(F) : f \in DOMAIN body

\* The value is a non-empty string that begins with "+" and that the
\* phonenumbers library parses to a valid number.
PhoneIsValid(p) ==
    /\ IsStr(p)
    /\ p.val # ""
    /\ StartsWithPlus(p.val)
    /\ ~ParseRaises(p.val)
    /\ IsValidNumber(p.val)

\* C11: a POST or PUT of user information with the three fields present
\* and a phone number that is not valid is answered 400 and leaves the
\* store as it was, and validate_phone_number returns False for that value
\* without raising.
C11_InvalidPhone ==
    (/\ IsUserInformationWrite
     /\ AllPresent(request.json, UserInformationFields)
     /\ ~PhoneIsValid(request.json["phone_number"])) =>
        /\ validate_phone_number(request.json["phone_number"]) = "False"
        /\ response.status = 400
        /\ data = pre

\* No field of F is null, the empty string or (when NullString) the
\* literal string "null".
NonEmpty(body, F, NullString) ==
    \A f \in Range(F) :
        body[f] \notin {None, Str("")} \cup (IF NullString THEN {Str("null")} ELSE {})

\* A write of user information replaced the stored record with the
\* submitted one and echoed it; a GET returns the stored record.
Replaces ==
    /\ data.user_information = [kind |-> "dict", items |-> <<request.json>>]
    /\ response.shape = "object"
    /\ response.items = <<request.json>>
    /\ SameFields(response.items[1], request.json, UserInformationFields)

GetReturnsStored ==
    (/\ request.method = "GET"
     /\ request.path = USER_INFORMATION
     /\ data.user_information.kind = "dict") =>
        /\ response.status = 200
        /\ response.shape = "object"
        /\ response.items = data.user_information.items

\* C12 as stated: a write of user information whose three fields are
\* present and non-empty and whose phone number is valid replaces the
\* stored record with the submitted one and echoes it, and a GET then
\* returns that record.
C12_Original ==
    /\ (/\ IsUserInformationWrite
         /\ AllPresent(request.json, UserInformationFields)
         /\ NonEmpty(request.json, UserInformationFields, FALSE)
         /\ PhoneIsValid(request.json["phone_number"])) => Replaces
    /\ GetReturnsStored

\* C12, amended: the same for a write whose three fields are present, not
\* null, not empty and not the literal string "null".
C12_Replaces ==
    /\ (/\ IsUserInformationWrite
         /\ AllPresent(request.json, UserInformationFields)
         /\ NonEmpty(request.json, UserInformationFields, TRUE)
         /\ PhoneIsValid(request.json["phone_number"])) => Replaces
    /\ GetReturnsStored

C12_Witness ==
    /\ IsUserInformationWrite
    /\ response.status = 201
    /\ pre.user_information.kind = "dict"
    /\ pre.user_information # data.user_information
    /\ data.user_information.items = <<request.json>>

\* C13: validate_fields returns exactly the names of field_names that are
\* absent from request_data or whose value is null, the empty string or the
\* string "null", each once and in the order of field_names; it returns the
\* empty list when no name is.
C13_ValidateFields ==
    call.function = "validate_fields" =>
        LET names == call.field_names
            request_data == call.request_data
            out == call.missing
            Flagged(f) == \/ f \notin DOMAIN request_data
                          \/ request_data[f] = None
                          \/ request_data[f] = Str("")
                          \/ request_data[f] = Str("null")
            Position(f) == CHOOSE i \in 1..Len(names) : names[i] = f
        IN  /\ Range(out) = {f \in Range(names) : Flagged(f)}
            /\ Len(out) = Cardinality(Range(out))
            /\ \A i, j \in 1..Len(out) :
                  i < j => Position(out[i]) < Position(out[j])
            /\ (\A f \in Range(names) : ~Flagged(f)) => out = <<>>

C13_Witness ==
    /\ call.function = "validate_fields"
    /\ call.field_names = <<"phone_number", "name", "email_address">>
    /\ call.request_data = [name |-> Str("null"), email_address |-> Str("John Doe")]
    /\ call.missing = <<"phone_number", "name">>

\* The client uploaded a file whose extension is png, jpg, jpeg or gif.
AllowedUpload(req) ==
    /\ req.content_type \in {MULTIPART, MULTIPART_WITH_BOUNDARY}
    /\ req.logo.present
    /\ req.logo.dot
    /\ Lower(req.logo.ext) \in {"png", "jpg", "jpeg", "gif"}

IsUpdate ==
    /\ request.method = "PUT"
    /\ request.path \in {EDUCATION_INDEX, SKILL}
    /\ response.status = 200

\* The record a successful create or update wrote.
Written ==
    IF IsCreate
    THEN Collection(data, request.path)[Len(Collection(data, request.path))]
    ELSE IF request.path = SKILL THEN data.skill[request.id.n + 1]
    ELSE data.education[request.index + 1]

\* The record an update found at its index.
Found ==
    IF request.path = SKILL THEN pre.skill[request.id.n + 1]
    ELSE pre.education[request.index + 1]

\* C14 as stated: after a successful create or update with no allowed file
\* uploaded the record's logo is the default placeholder, and it is the
\* sanitized uploaded filename only when an allowed file was uploaded.
C14_Original ==
    ((IsCreate /\ response.status = 201) \/ IsUpdate) =>
        /\ ~AllowedUpload(request) => Written.logo = DEFAULT_LOGO
        /\ Written.logo # DEFAULT_LOGO =>
              AllowedUpload(request) /\ Written.logo = secure_filename(request.logo)

\* C14, amended: after a successful create with no allowed file uploaded the
\* record's logo is the default placeholder, and it is the sanitized uploaded
\* filename only when an allowed file was uploaded; after a successful
\* update with no allowed file uploaded the logo of an education record is
\* what it was, and the logo of a skill record is the logo member of the
\* JSON body, or what it was when the body has none.
C14_Logo ==
    /\ (IsCreate /\ response.status = 201) =>
          /\ ~AllowedUpload(request) => Written.logo = DEFAULT_LOGO
          /\ Written.logo # DEFAULT_LOGO =>
                AllowedUpload(request)
                /\ Written.logo = secure_filename(request.logo)
    /\ (IsUpdate /\ ~AllowedUpload(request)) =>
          Written.logo = IF request.path = SKILL /\ "logo" \in DOMAIN request.json
                         THEN request.json["logo"]
                         ELSE Found.logo

C14_Witness ==
    /\ IsCreate
    /\ response.status = 201
    /\ "logo" \in DOMAIN request.json
    /\ request.json["logo"] # DEFAULT_LOGO
    /\ Written.logo = DEFAULT_LOGO

IsAddCustomSection ==
    /\ request.method = "POST"
    /\ request.path = CUSTOM_SECTION
    /\ is_json(request)

\* C15: a POST of a custom section with title and content is answered 201
\* with the id assigned to the new section and appends exactly the section
\* {title, content} to the end of the list; a POST without title or without
\* content is answered 400 and appends nothing; GET /custom-sections returns
\* the sections in the order they were created.
C15_CustomSections ==
    /\ (IsAddCustomSection /\ AllPresent(request.json, <<"title", "content">>)) =>
          /\ response.status = 201
          /\ response.id \in 0..Len(custom_sections)
          /\ custom_sections =
                Append(pre_sections, [title |-> request.json["title"],
                                      content |-> request.json["content"]])
    /\ (IsAddCustomSection /\ ~AllPresent(request.json, <<"title", "content">>)) =>
          /\ response.status = 400
          /\ custom_sections = pre_sections
    /\ (request.method = "GET" /\ request.path = CUSTOM_SECTIONS) =>
          /\ response.status = 200
          /\ response.shape = "list"
          /\ response.items = custom_sections

\* The texts of the populated recognized fields of a spell check body, in
\* the order the results are to have: the experiences (title before
\* description), then the educations, then the skills.
RECURSIVE Texts(_, _)
Texts(records, fields) ==
    IF records = <<>> THEN <<>>
    ELSE LET record == Head(records)
             Has(f) == f \in DOMAIN record
         IN  [i \in 1..Len(SelectSeq(fields, Has)) |->
                 record[SelectSeq(fields, Has)[i]]]
             \o Texts(Tail(records), fields)

ExpectedBefore(body) ==
    Texts(body.experience, <<"title", "description">>)
        \o Texts(body.education, <<"course">>)
        \o Texts(body.skill, <<"name">>)

\* C16: POST /resume/spellcheck is answered 200 with one {before, after}
\* entry for each populated recognized text field, before being the
\* original text, in the order experience (title, then description),
\* education, skill.
C16_Spellcheck ==
    (request.method = "POST" /\ request.path = SPELLCHECK) =>
        /\ response.status = 200
        /\ response.shape = "list"
        /\ Len(response.items) = Len(ExpectedBefore(request.json))
        /\ \A i \in 1..Len(response.items) :
              response.items[i].before = ExpectedBefore(request.json)[i]

\* Handling the request of thread a and then that of thread b, each to
\* completion, from the store `pre` gives the answers the threads gave and
\* the store they left.
Serial(a, b) ==
    LET first == dispatch_request(Globals(pre, <<>>), threads[a].request)
        second == dispatch_request(first.data, threads[b].request)
    IN  /\ threads[a].response = first.response
        /\ threads[b].response = second.response
        /\ data = DataOf(second.data)

\* C17: when two threads have handled a create, update or delete each, the
\* ids and answers returned and the final store are those of one of the two
\* serial orders of the two requests.
C17_Atomic ==
    (\A t \in Threads : threads[t].pc = "done") => Serial(1, 2) \/ Serial(2, 1)

\* C18: every stored experience, education and skill record has a string
\* for each of its required fields and for its logo.
C18_StringFields ==
    \A path \in {EXPERIENCE, EDUCATION, SKILL} :
        \A i \in 1..Len(Collection(data, path)) :
            LET record == Collection(data, path)[i]
            IN  /\ \A f \in Range(RequiredFields(path)) :
                      f \in DOMAIN record /\ IsStr(record[f])
                /\ IsStr(record.logo)

\* C19: the user information stored is a single record, not a list, with
\* exactly the fields name, email_address and phone_number, and GET
\* /resume/user_information returns a value of that shape.
C19_SingleRecord ==
    /\ data.user_information.kind = "dict"
    /\ Len(data.user_information.items) = 1
    /\ DOMAIN data.user_information.items[1] = Range(UserInformationFields)
    /\ (request.method = "GET" /\ request.path = USER_INFORMATION) =>
          /\ response.shape = "object"
          /\ DOMAIN response.items[1] = Range(UserInformationFields)

====
